---- MODULE Spec2Model ----
(***************************************************************************)
(* Model of the exam-proctoring signalling backend (src/server.js, the     *)
(* revision with createStreamPathIfNeeded, lines 803-1770).                *)
(*                                                                         *)
(* Two independent parts share no state:                                   *)
(*   - the room registry driven by socket events (rooms, socketToRoom,     *)
(*     activeStudents, activeProctors),                                    *)
(*   - the HTTP broker (WHIP publish with HLS fallback, path provisioning, *)
(*     stream status) talking to the external media server.                *)
(* SpecRegistry (joins and disconnects), SpecSocket (every socket event)   *)
(* and SpecBroker run one part each; Spec runs both.  The status update of *)
(* routes/students.js works on the registry and runs in SpecRoster, with  *)
(* the dashboard of routes/proctors.js in SpecRest; the MediaMTXManager of *)
(* utils/mediamtx.js, which no route uses, runs in SpecManager.            *)
(***************************************************************************)
EXTENDS Integers, Sequences, FiniteSets, TLC

\* ------------------------------------------------------------------ bounds
NumSockets == 3      \* connections that may join
MaxJoins == 3        \* join events processed in one run
MaxRequests == 2     \* HTTP requests that arrive in one run
MaxWebSockets == 3   \* WebSockets the manager opens in one run

\* the connections that join at some time, and one that never does
Joiners == 1..NumSockets
Visitor == NumSockets + 1
Sockets == Joiners \cup {Visitor}
StudentIds == {"s1", "s2"}
ProctorIds == {"p1"}
UserIds == StudentIds \cup ProctorIds
RoomIds == {"examA", "examB"}
DisplayNames == {"Ann"}

VARIABLES
    rooms,           \* roomId -> [students: Seq(record), proctors: Seq(record)]
    socketToRoom,    \* socket.id -> [roomId, role, userId]
    activeStudents,  \* studentId -> participant record
    activeProctors,  \* proctorId -> participant record
    members,         \* socket.io room membership: roomId -> set of sockets
    closed,          \* sockets whose connection has ended
    sent,            \* what the last socket handler emitted: {[to, event, data]}
    joined,          \* history: <<socket, role, id, roomId>> joined on a socket still open
    joins,           \* history: number of join events processed
    lastEvent,       \* history: the socket event handled last
    left,            \* history: sockets whose disconnect removed a binding
    reply,           \* what the students router answered last: [status, student]
    manager          \* the MediaMTXManager object of utils/mediamtx.js

regVars == <<rooms, socketToRoom, activeStudents, activeProctors, members, closed,
             sent, joined, joins, lastEvent, left, reply, manager>>

VARIABLES
    req,             \* request slot -> its handler's state
    paths,           \* the stream paths that exist on the external service
    creates,         \* history: name -> path-create requests sent
    uncheckedCreate, \* history: name -> a create was sent and no path-get since
    dupCreate,       \* history: names that got two creates with no path-get between
    faults,          \* history: the external service failed at least once
    arrivals         \* history: number of HTTP requests that have arrived

brokerVars == <<req, paths, creates, uncheckedCreate, dupCreate, faults, arrivals>>

vars == <<regVars, brokerVars>>

\* ------------------------------------------------------------- JS helpers
\* delete obj[k]
Delete(obj, k) == [x \in DOMAIN obj \ {k} |-> obj[x]]

\* obj[k] = v
Put(obj, k, v) == [x \in DOMAIN obj \cup {k} |-> IF x = k THEN v ELSE obj[x]]

\* Array.prototype.findIndex(e => e.id === id), 1-based; 0 when absent (-1 in JS)
FindIndex(arr, id) ==
    IF \E i \in 1..Len(arr) : arr[i].id = id
    THEN CHOOSE i \in 1..Len(arr) :
             arr[i].id = id /\ \A j \in 1..(i - 1) : arr[j].id # id
    ELSE 0

\* Array.prototype.filter(e => e.id !== id)
FilterOutId(arr, id) == SelectSeq(arr, LAMBDA e : e.id # id)

\* socket.to(roomId): every socket in the socket.io room except the sender
OthersIn(roomId, c) == members[roomId] \ {c}

\* the participant record written by a join handler
Participant(id, name, c, roomId, status) ==
    [id |-> id, name |-> name, socketId |-> c, roomId |-> roomId, status |-> status]

\* rooms[roomId] after "if (!rooms[roomId]) rooms[roomId] = {students: [], proctors: []}"
RoomOrEmpty(roomId) ==
    IF roomId \in DOMAIN rooms THEN rooms[roomId]
    ELSE [students |-> <<>>, proctors |-> <<>>]

\* Upsert without its push: a new id is not added to the bucket.
UpsertWithoutPush(arr, rec) ==
    IF FindIndex(arr, rec.id) > 0
    THEN [arr EXCEPT ![FindIndex(arr, rec.id)] = rec]
    ELSE arr

\* Upsert without its findIndex: every join pushes.
UpsertAlwaysPush(arr, rec) == Append(arr, rec)

\* findIndex + overwrite in place, or push
Upsert(arr, rec) ==
    IF FindIndex(arr, rec.id) > 0
    THEN [arr EXCEPT ![FindIndex(arr, rec.id)] = rec]
    ELSE Append(arr, rec)

\* io.on('connection'): the joining connections are numbered in the order of
\* their first join.  Socket ids are opaque to the handlers, so the numbering
\* loses nothing.
Connected(c) ==
    \A d \in Joiners : d < c => (d \in DOMAIN socketToRoom \/ d \in closed)

\* Room ids and participant ids are opaque to the handlers too: a join names an
\* id that the state does not mention yet only when every id before it in the
\* order below is mentioned already.
RoomOrder == <<"examA", "examB">>
StudentOrder == <<"s1", "s2">>

RoomSeen(r) == r \in DOMAIN rooms

StudentSeen(id) ==
    \/ id \in DOMAIN activeStudents
    \/ \E r \in DOMAIN rooms : FindIndex(rooms[r].students, id) > 0
    \/ \E c \in DOMAIN socketToRoom :
           socketToRoom[c].role = "student" /\ socketToRoom[c].userId = id
    \/ \E j \in joined : j[2] = "student" /\ j[3] = id

RoomInOrder(r) ==
    \/ RoomSeen(r)
    \/ \A i \in 1..Len(RoomOrder) :
           RoomOrder[i] = r => \A j \in 1..(i - 1) : RoomSeen(RoomOrder[j])

StudentInOrder(id) ==
    \/ StudentSeen(id)
    \/ \A i \in 1..Len(StudentOrder) :
           StudentOrder[i] = id => \A j \in 1..(i - 1) : StudentSeen(StudentOrder[j])

\* the students router has answered nothing yet
NoReply == [status |-> 0, student |-> [id |-> "undefined"]]

\* what a method of the manager returned last
NoResult == [op |-> "none", success |-> FALSE, error |-> "", streamPath |-> "",
             streams |-> {}]

\* constructor(serverUrl): this.connections = new Map(), no WebSocket opened yet
NewManager ==
    [connections |-> <<>>,   \* this.connections: key -> WebSocket
     sockets |-> <<>>,       \* every WebSocket made so far: "open" or "closed"
     live |-> {},            \* history: keys created and not yet stopped with success
     result |-> NoResult]

\* ------------------------------------------------------------ socket events
RegistryInit ==
    /\ rooms = <<>>
    /\ socketToRoom = <<>>
    /\ activeStudents = <<>>
    /\ activeProctors = <<>>
    /\ members = [r \in RoomIds |-> {}]
    /\ closed = {}
    /\ sent = {}
    /\ joined = {}
    /\ joins = 0
    /\ lastEvent = [op |-> "none", socket |-> 0, again |-> FALSE]
    /\ left = {}
    /\ reply = NoReply
    /\ manager = NewManager

\* socket.on('join-as-student')
JoinAsStudent(c, studentId, roomId, name) ==
    LET rec == Participant(studentId, name, c, roomId, "online")
        room == RoomOrEmpty(roomId)
        room2 == [room EXCEPT !.students = Upsert(room.students, rec)]
        mem2 == [members EXCEPT ![roomId] = @ \cup {c}]
    IN  /\ joins < MaxJoins
        /\ c \notin closed
        /\ Connected(c)
        /\ RoomInOrder(roomId)
        /\ StudentInOrder(studentId)
        /\ joins' = joins + 1
        /\ members' = mem2
        /\ socketToRoom' = Put(socketToRoom, c,
                               [roomId |-> roomId, role |-> "student", userId |-> studentId])
        /\ activeStudents' = Put(activeStudents, studentId, rec)
        /\ rooms' = Put(rooms, roomId, room2)
        /\ sent' = {[to |-> o, event |-> "student-joined", data |-> rec] :
                        o \in mem2[roomId] \ {c}}
                   \cup {[to |-> c, event |-> "room-info",
                          data |-> [roomId |-> roomId,
                                    studentsCount |-> Len(room2.students),
                                    proctorsCount |-> Len(room2.proctors)]]}
        /\ joined' = joined \cup {<<c, "student", studentId, roomId>>}
        /\ lastEvent' = [op |-> "join-as-student", socket |-> c, again |-> FALSE]
        /\ UNCHANGED <<activeProctors, closed, left, reply, manager>>
        /\ UNCHANGED brokerVars

\* socket.on('join-as-proctor')
JoinAsProctor(c, proctorId, roomId, name) ==
    LET rec == Participant(proctorId, name, c, roomId, "monitoring")
        room == RoomOrEmpty(roomId)
        room2 == [room EXCEPT !.proctors = Upsert(room.proctors, rec)]
    IN  /\ joins < MaxJoins
        /\ c \notin closed
        /\ Connected(c)
        /\ RoomInOrder(roomId)
        /\ joins' = joins + 1
        /\ members' = [members EXCEPT ![roomId] = @ \cup {c}]
        /\ socketToRoom' = Put(socketToRoom, c,
                               [roomId |-> roomId, role |-> "proctor", userId |-> proctorId])
        /\ activeProctors' = Put(activeProctors, proctorId, rec)
        /\ rooms' = Put(rooms, roomId, room2)
        /\ sent' = {[to |-> c, event |-> "active-students", data |-> room2.students]}
        /\ joined' = joined \cup {<<c, "proctor", proctorId, roomId>>}
        /\ lastEvent' = [op |-> "join-as-proctor", socket |-> c, again |-> FALSE]
        /\ UNCHANGED <<activeStudents, closed, left, reply, manager>>
        /\ UNCHANGED brokerVars

\* DisconnectBound without its last statement, delete socketToRoom[socket.id].
DisconnectBoundKeepsBinding(c) ==
    LET userInfo == socketToRoom[c]
        roomId == userInfo.roomId
        userId == userInfo.userId
    IN  /\ IF userInfo.role = "student" /\ userId \in DOMAIN activeStudents
           THEN /\ activeStudents' = Delete(activeStudents, userId)
                /\ rooms' = [rooms EXCEPT ![roomId].students = FilterOutId(@, userId)]
                /\ sent' = {[to |-> o, event |-> "student-disconnected",
                             data |-> [studentId |-> userId]] : o \in OthersIn(roomId, c)}
                /\ UNCHANGED activeProctors
           ELSE IF userInfo.role = "proctor" /\ userId \in DOMAIN activeProctors
           THEN /\ activeProctors' = Delete(activeProctors, userId)
                /\ rooms' = [rooms EXCEPT ![roomId].proctors = FilterOutId(@, userId)]
                /\ sent' = {}
                /\ UNCHANGED activeStudents
           ELSE /\ sent' = {}
                /\ UNCHANGED <<rooms, activeStudents, activeProctors>>
        /\ UNCHANGED socketToRoom

\* The registry part of socket.on('disconnect') for a socket that has a binding.
DisconnectBound(c) ==
    LET userInfo == socketToRoom[c]
        roomId == userInfo.roomId
        userId == userInfo.userId
    IN  /\ IF userInfo.role = "student" /\ userId \in DOMAIN activeStudents
           THEN /\ activeStudents' = Delete(activeStudents, userId)
                /\ IF roomId \in DOMAIN rooms
                   THEN /\ rooms' = [rooms EXCEPT ![roomId].students =
                                         FilterOutId(@, userId)]
                        /\ sent' = {[to |-> o, event |-> "student-disconnected",
                                     data |-> [studentId |-> userId]] :
                                        o \in OthersIn(roomId, c)}
                   ELSE UNCHANGED rooms /\ sent' = {}
                /\ UNCHANGED activeProctors
           ELSE IF userInfo.role = "proctor" /\ userId \in DOMAIN activeProctors
           THEN /\ activeProctors' = Delete(activeProctors, userId)
                /\ IF roomId \in DOMAIN rooms
                   THEN rooms' = [rooms EXCEPT ![roomId].proctors =
                                      FilterOutId(@, userId)]
                   ELSE UNCHANGED rooms
                /\ sent' = {}
                /\ UNCHANGED activeStudents
           ELSE /\ sent' = {}
                /\ UNCHANGED <<rooms, activeStudents, activeProctors>>
        /\ socketToRoom' = Delete(socketToRoom, c)

\* socket.on('disconnect'): the handler, run for any socket (also one that never
\* joined, and again for one that has already left).  The transport drops the
\* socket from every socket.io room when its connection ends.  The connection
\* that closes without a join is the Visitor.
Disconnect(c) ==
    /\ (c = Visitor \/ c \in DOMAIN socketToRoom \/ c \in closed)
    /\ IF c \in DOMAIN socketToRoom
       THEN DisconnectBound(c)
       ELSE /\ sent' = {}
            /\ UNCHANGED <<rooms, socketToRoom, activeStudents, activeProctors>>
    /\ members' = [r \in RoomIds |-> members[r] \ {c}]
    /\ closed' = closed \cup {c}
    /\ joined' = {j \in joined : j[1] # c}
    /\ lastEvent' = [op |-> "disconnect", socket |-> c, again |-> c \in closed]
    /\ left' = IF c \in DOMAIN socketToRoom THEN left \cup {c} ELSE left
    /\ UNCHANGED <<joins, reply, manager>>
    /\ UNCHANGED brokerVars

JoinNext ==
    \/ \E c \in Joiners, id \in StudentIds, r \in RoomIds, n \in DisplayNames :
           JoinAsStudent(c, id, r, n)
    \/ \E c \in Joiners, id \in ProctorIds, r \in RoomIds, n \in DisplayNames :
           JoinAsProctor(c, id, r, n)

RegistryNext ==
    \/ JoinNext
    \/ \E c \in Sockets : Disconnect(c)

\* =================================================================== broker
\* the handlers that may be in flight at the same time
Reqs == {1, 2}
StreamNames == {"s1_camera", "s1_screen"}
Whitespace == {" ", "\t"}

\* req.body as the body parsers hand it over: absent, a string (a sequence of
\* characters), or a parsed JSON object
Undefined == [type |-> "undefined", text |-> <<>>]
Str(chars) == [type |-> "string", text |-> chars]
JsonObject == [type |-> "object", text |-> <<>>]
Bodies == {Undefined, JsonObject, Str(<<>>), Str(<<"\t", " ">>), Str(<<" ", "v">>)}
AnswerBodies == {"ANSWER", "ANSWER2"}


NoResp ==
    [status |-> 0, body |-> "", message |-> "", hlsUrl |-> <<>>, viewUrl |-> <<>>,
     statusUrl |-> <<>>, webrtcError |-> "", fallbackError |-> "", exists |-> "n/a",
     hlsAvailable |-> "n/a"]

IdleReq ==
    [route |-> "none", name |-> "", pc |-> "idle", body |-> Undefined, timer |-> FALSE,
     perr |-> "", svcStatus |-> 0, svcAnswer |-> "", ensureRet |-> "none", createOutcome |-> "none",
     absentAtCall |-> FALSE, overlapped |-> {}, deferred |-> "none", warmup |-> "none",
     calls |-> 0, afterFallback |-> FALSE, resp |-> NoResp]

EnsurePcs == {"ensureGet", "ensureGetBody", "ensureCreate", "ensureCreateBody",
              "ensureCreateError"}

\* locators built from the stream name by template strings
HlsUrl(streamName) == <<"/hls/", streamName, "/index.m3u8">>
ViewUrl(streamName) == <<"/hls/", streamName, "/">>
StatusUrl(streamName) == <<"/api/stream/", streamName, "/status">>
CreateUrl(streamName) == <<"/api/stream/", streamName, "/create">>

\* String.prototype.trim(): drop leading and trailing whitespace
RECURSIVE TrimLeft(_)
TrimLeft(chars) ==
    IF chars # <<>> /\ Head(chars) \in Whitespace THEN TrimLeft(Tail(chars)) ELSE chars

RECURSIVE TrimRight(_)
TrimRight(chars) ==
    IF chars # <<>> /\ chars[Len(chars)] \in Whitespace
    THEN TrimRight(SubSeq(chars, 1, Len(chars) - 1))
    ELSE chars

Trim(chars) == TrimRight(TrimLeft(chars))

\* !sdpOffer : undefined and the empty string are falsy, an object is truthy
Falsy(body) == body.type = "undefined" \/ (body.type = "string" /\ body.text = <<>>)

BrokerInit ==
    /\ req = [r \in Reqs |-> IdleReq]
    /\ paths = {}
    /\ creates = [n \in StreamNames |-> 0]
    /\ uncheckedCreate = [n \in StreamNames |-> FALSE]
    /\ dupCreate = {}
    /\ faults = FALSE
    /\ arrivals = 0

\* a handler slot is free when its request has run to its end
Free(r) == req[r].pc \in {"idle", "done"} /\ req[r].warmup # "pending"

\* a new request arrives and takes the lowest free slot
Arrives(r) ==
    /\ arrivals < MaxRequests
    /\ Free(r)
    /\ \A q \in Reqs : q < r => ~Free(q)
    /\ arrivals' = arrivals + 1

Responded(rq) == rq.resp.status # 0

\* ------------------------------------------------ createStreamPathIfNeeded
\* The call itself: the path-get request leaves, the caller awaits it.
CallEnsure(r, rq) ==
    /\ req' = [req EXCEPT ![r] =
                  [rq EXCEPT !.pc = "ensureGet",
                             !.calls = @ + 1,
                             !.absentAtCall = rq.name \notin paths,
                             !.overlapped = {q \in Reqs \ {r} : req[q].pc \in EnsurePcs}]]
    /\ uncheckedCreate' = [uncheckedCreate EXCEPT ![rq.name] = FALSE]
    /\ UNCHANGED <<paths, creates, dupCreate, faults>>
    /\ UNCHANGED regVars

\* POST /api/stream/:streamName/create answers from ensure's result
CreateRouteResponse(streamName, created) ==
    IF created
    THEN [NoResp EXCEPT !.status = 200,
                        !.message = "Stream path created/verified successfully",
                        !.viewUrl = ViewUrl(streamName),
                        !.hlsUrl = HlsUrl(streamName),
                        !.statusUrl = StatusUrl(streamName)]
    ELSE [NoResp EXCEPT !.status = 500, !.message = "MediaMTX path creation failed"]

\* FallbackResponse as the first revisions of the route had it: only an aborted
\* attempt is answered 202, any other failure is passed on as 503.
FallbackResponseAbortOnly(streamName, webrtcError, streamCreated) ==
    IF streamCreated /\ webrtcError = "This operation was aborted"
    THEN [NoResp EXCEPT !.status = 202,
                        !.webrtcError = webrtcError,
                        !.hlsUrl = HlsUrl(streamName),
                        !.viewUrl = ViewUrl(streamName),
                        !.statusUrl = StatusUrl(streamName)]
    ELSE [NoResp EXCEPT !.status = 503, !.webrtcError = webrtcError]

\* The WHIP fallback branch answers from ensure's result: 202 with the HLS
\* locators, or (throw, caught as fallbackError) 503.
FallbackResponse(streamName, webrtcError, streamCreated) ==
    IF streamCreated
    THEN [NoResp EXCEPT !.status = 202,
                        !.message = "WebRTC failed but stream path created for HLS viewing",
                        !.webrtcError = webrtcError,
                        !.hlsUrl = HlsUrl(streamName),
                        !.viewUrl = ViewUrl(streamName),
                        !.statusUrl = StatusUrl(streamName)]
    ELSE [NoResp EXCEPT !.status = 503,
                        !.message = "Both WebRTC and fallback stream creation failed",
                        !.webrtcError = webrtcError,
                        !.fallbackError = "Both WebRTC and fallback stream creation failed"]

\* The playlist route answers 404 after ensure, whatever ensure returned.
PlaylistMissingResponse(streamName, created) ==
    [NoResp EXCEPT !.status = 404,
                   !.message = "Stream path created, please try again in a few seconds",
                   !.statusUrl = StatusUrl(streamName)]

\* Return with the deferred ensure answering like the fallback's ensure: its
\* result is turned into a response although the answer has been sent.
ReturnAnswersAgain(rq, ret) ==
    [rq EXCEPT !.ensureRet = IF ret THEN "true" ELSE "false",
               !.pc = "done",
               !.resp = CASE rq.route = "whip" -> FallbackResponse(rq.name, rq.perr, ret)
                          [] rq.route = "create" -> CreateRouteResponse(rq.name, ret)
                          [] OTHER -> PlaylistMissingResponse(rq.name, ret)]

\* ensure returns ret to the code that awaited it
Return(rq, ret) ==
    LET r1 == [rq EXCEPT !.ensureRet = IF ret THEN "true" ELSE "false"]
    IN  IF Responded(rq)
        THEN [r1 EXCEPT !.pc = "done"]      \* the deferred ensure: result dropped
        ELSE [r1 EXCEPT !.pc = "done",
                        !.resp = CASE rq.route = "whip" ->
                                          FallbackResponse(rq.name, rq.perr, ret)
                                   [] rq.route = "create" ->
                                          CreateRouteResponse(rq.name, ret)
                                   [] OTHER ->
                                          PlaylistMissingResponse(rq.name, ret)]

\* the path-get response arrives: found (2xx), or not found / an error status
\* (both !ok, both lead to the create request)
GetResponds(r, answer) ==
    LET rq == req[r]
        ok == answer = "truth" /\ rq.name \in paths
    IN  /\ rq.pc = "ensureGet"
        /\ IF ok
           THEN /\ req' = [req EXCEPT ![r].pc = "ensureGetBody"]
                /\ UNCHANGED <<creates, uncheckedCreate, dupCreate>>
           ELSE /\ req' = [req EXCEPT ![r].pc = "ensureCreate", ![r].calls = @ + 1]
                /\ creates' = [creates EXCEPT ![rq.name] = @ + 1]
                /\ uncheckedCreate' = [uncheckedCreate EXCEPT ![rq.name] = TRUE]
                /\ dupCreate' = IF uncheckedCreate[rq.name]
                                THEN dupCreate \cup {rq.name} ELSE dupCreate
        /\ faults' = (faults \/ answer = "error")
        /\ UNCHANGED paths
        /\ UNCHANGED <<arrivals, regVars>>

\* the path-get fetch rejects (network error): catch, return false
GetFails(r) ==
    /\ req[r].pc = "ensureGet"
    /\ req' = [req EXCEPT ![r] = Return(req[r], FALSE)]
    /\ faults' = TRUE
    /\ UNCHANGED <<paths, creates, uncheckedCreate, dupCreate>>
    /\ UNCHANGED <<arrivals, regVars>>

\* await existingPathResponse.json(): resolves (return true) or rejects (catch)
GetBodyRead(r, wellFormed) ==
    /\ req[r].pc = "ensureGetBody"
    /\ req' = [req EXCEPT ![r] = Return(req[r], wellFormed)]
    /\ faults' = (faults \/ ~wellFormed)
    /\ UNCHANGED <<paths, creates, uncheckedCreate, dupCreate>>
    /\ UNCHANGED <<arrivals, regVars>>

\* the path-create response arrives.  A truthful service creates the path (2xx)
\* when it is absent and rejects the request when the path already exists.
CreateResponds(r, answer) ==
    LET rq == req[r]
        created == answer = "truth" /\ rq.name \notin paths
        outcome == IF created THEN "created"
                   ELSE IF answer = "truth" THEN "conflict" ELSE "error"
    IN  /\ rq.pc = "ensureCreate"
        /\ req' = [req EXCEPT ![r].pc = IF created THEN "ensureCreateBody"
                                        ELSE "ensureCreateError",
                              ![r].createOutcome = outcome]
        /\ paths' = IF created THEN paths \cup {rq.name} ELSE paths
        /\ faults' = (faults \/ answer = "error")
        /\ UNCHANGED <<creates, uncheckedCreate, dupCreate>>
        /\ UNCHANGED <<arrivals, regVars>>

\* the path-create fetch rejects (network error): catch, return false
CreateFails(r) ==
    /\ req[r].pc = "ensureCreate"
    /\ req' = [req EXCEPT ![r] = Return([req[r] EXCEPT !.createOutcome = "neterr"], FALSE)]
    /\ faults' = TRUE
    /\ UNCHANGED <<paths, creates, uncheckedCreate, dupCreate>>
    /\ UNCHANGED <<arrivals, regVars>>

\* await createResponse.json(): resolves (schedule the warm-up, return true) or
\* rejects (catch, return false)
CreateBodyRead(r, wellFormed) ==
    /\ req[r].pc = "ensureCreateBody"
    /\ req' = [req EXCEPT ![r] =
                  IF wellFormed
                  THEN Return([req[r] EXCEPT !.warmup = "pending"], TRUE)
                  ELSE Return(req[r], FALSE)]
    /\ faults' = (faults \/ ~wellFormed)
    /\ UNCHANGED <<paths, creates, uncheckedCreate, dupCreate>>
    /\ UNCHANGED <<arrivals, regVars>>

\* !createResponse.ok: await createResponse.text(), log, return false (the catch
\* returns false as well when the text cannot be read)
CreateErrorRead(r) ==
    /\ req[r].pc = "ensureCreateError"
    /\ req' = [req EXCEPT ![r] = Return(req[r], FALSE)]
    /\ UNCHANGED <<paths, creates, uncheckedCreate, dupCreate, faults>>
    /\ UNCHANGED <<arrivals, regVars>>

\* WarmupFires with a failed warm-up taken for a failed ensure.
WarmupFiresDowngrades(r) ==
    /\ req[r].warmup = "pending"
    /\ req' = [req EXCEPT ![r].warmup = "sent", ![r].calls = @ + 1,
                          ![r].ensureRet = "false"]
    /\ UNCHANGED <<paths, creates, uncheckedCreate, dupCreate, faults>>
    /\ UNCHANGED <<arrivals, regVars>>

\* setTimeout(..., 2000) after a create: one GET of the playlist, errors caught
WarmupFires(r) ==
    /\ req[r].warmup = "pending"
    /\ req' = [req EXCEPT ![r].warmup = "sent", ![r].calls = @ + 1]
    /\ UNCHANGED <<paths, creates, uncheckedCreate, dupCreate, faults>>
    /\ UNCHANGED <<arrivals, regVars>>

\* app.post('/api/stream/:streamName/create')
CreateRouteStart(r, streamName) ==
    /\ Arrives(r)
    /\ CallEnsure(r, [IdleReq EXCEPT !.route = "create", !.name = streamName])

EnsureNext ==
    \/ \E r \in Reqs, a \in {"truth", "error"} : GetResponds(r, a)
    \/ \E r \in Reqs : GetFails(r)
    \/ \E r \in Reqs, w \in BOOLEAN : GetBodyRead(r, w)
    \/ \E r \in Reqs, a \in {"truth", "error"} : CreateResponds(r, a)
    \/ \E r \in Reqs : CreateFails(r)
    \/ \E r \in Reqs, w \in BOOLEAN : CreateBodyRead(r, w)
    \/ \E r \in Reqs : CreateErrorRead(r)
    \/ \E r \in Reqs : WarmupFires(r)

ProvisionNext ==
    \/ \E r \in Reqs, n \in StreamNames : CreateRouteStart(r, n)
    \/ EnsureNext

\* ------------------------------------------- app.post('/:streamName/whip')
\* EmptyOffer without the trim: if (!sdpOffer), as in the other revisions.
EmptyOfferNoTrim(body) == Falsy(body)

\* the 200 answer with the fallback's locator fields added
AnswerResponseWithLocator(answerSdp) ==
    [NoResp EXCEPT !.status = 200, !.body = answerSdp, !.hlsUrl = <<"/hls/">>]

\* if (!sdpOffer || sdpOffer.trim().length === 0): the request is rejected.
\* (sdpOffer.trim() of a body that is no string throws; see WhipStart.)
EmptyOffer(body) == Falsy(body) \/ Len(Trim(body.text)) = 0

\* the 200 answer: res.send(answerSdp)
AnswerResponse(answerSdp) == [NoResp EXCEPT !.status = 200, !.body = answerSdp]

\* The handler up to its first await: validation, then the 10 s abort timer is
\* armed and the offer goes to the primary endpoint.  A truthy body without
\* trim() makes the outer catch answer 503.
WhipStart(r, streamName, body) ==
    LET rq == [IdleReq EXCEPT !.route = "whip", !.name = streamName, !.body = body]
    IN  /\ Arrives(r)
        /\ req' = [req EXCEPT ![r] =
                      IF ~Falsy(body) /\ body.type # "string"
                      THEN [rq EXCEPT !.pc = "done",
                                      !.resp = [NoResp EXCEPT
                                                   !.status = 503,
                                                   !.message = "MediaMTX WHIP service unavailable"]]
                      ELSE IF EmptyOffer(body)
                      THEN [rq EXCEPT !.pc = "done",
                                      !.resp = [NoResp EXCEPT
                                                   !.status = 400,
                                                   !.message = "No SDP offer provided or empty SDP"]]
                      ELSE [rq EXCEPT !.pc = "awaitPrimary", !.timer = TRUE,
                                      !.calls = @ + 1]]
        /\ UNCHANGED <<paths, creates, uncheckedCreate, dupCreate, faults>>
        /\ UNCHANGED regVars

\* the primary endpoint's response headers arrive: clearTimeout(timeout)
PrimaryResponds(r, ok) ==
    /\ req[r].pc = "awaitPrimary"
    /\ req' = [req EXCEPT ![r].pc = IF ok THEN "readAnswer" ELSE "readError",
                          ![r].timer = FALSE]
    /\ UNCHANGED <<paths, creates, uncheckedCreate, dupCreate, faults>>
    /\ UNCHANGED <<arrivals, regVars>>

\* catch (fetchError): clearTimeout, then the fallback's ensure is called
Fallback(r, message) ==
    CallEnsure(r, [req[r] EXCEPT !.timer = FALSE, !.perr = message])

\* the primary fetch rejects with a network error
PrimaryFails(r) ==
    /\ req[r].pc = "awaitPrimary"
    /\ Fallback(r, "fetch failed")
    /\ UNCHANGED arrivals

\* the 10 s timer fires: controller.abort() rejects the pending fetch
AbortTimerFires(r) ==
    /\ req[r].pc = "awaitPrimary"
    /\ req[r].timer
    /\ Fallback(r, "This operation was aborted")
    /\ UNCHANGED arrivals

\* await response.text() of a 2xx answer resolves: the deferred ensure is
\* scheduled (setTimeout 2000) and the answer is sent
AnswerRead(r, answerSdp) ==
    /\ req[r].pc = "readAnswer"
    /\ req' = [req EXCEPT ![r].pc = "answered",
                          ![r].svcAnswer = answerSdp,
                          ![r].deferred = "pending",
                          ![r].resp = AnswerResponse(answerSdp)]
    /\ UNCHANGED <<paths, creates, uncheckedCreate, dupCreate, faults>>
    /\ UNCHANGED <<arrivals, regVars>>

\* await response.text() rejects (2xx or not): caught as a fetchError
PrimaryBodyFails(r) ==
    /\ req[r].pc \in {"readAnswer", "readError"}
    /\ Fallback(r, "terminated")
    /\ UNCHANGED arrivals

\* await response.text() of a non-2xx answer resolves: throw new Error(...)
ErrorRead(r) ==
    /\ req[r].pc = "readError"
    /\ Fallback(r, "WebRTC failed: 500 - error")
    /\ UNCHANGED arrivals

\* the deferred callback runs: await createStreamPathIfNeeded(streamName)
DeferredFires(r) ==
    /\ req[r].pc = "answered"
    /\ req[r].deferred = "pending"
    /\ CallEnsure(r, [req[r] EXCEPT !.deferred = "ran"])
    /\ UNCHANGED arrivals

WhipNext ==
    \/ \E r \in Reqs, n \in StreamNames, b \in Bodies : WhipStart(r, n, b)
    \/ \E r \in Reqs, ok \in BOOLEAN : PrimaryResponds(r, ok)
    \/ \E r \in Reqs : PrimaryFails(r)
    \/ \E r \in Reqs : AbortTimerFires(r)
    \/ \E r \in Reqs, a \in AnswerBodies : AnswerRead(r, a)
    \/ \E r \in Reqs : PrimaryBodyFails(r)
    \/ \E r \in Reqs : ErrorRead(r)
    \/ \E r \in Reqs : DeferredFires(r)

\* ------------------------------------------- app.post('/:streamName/whep')
\* the statuses and the error bodies the primary endpoint answers a subscribe with
WhepStatuses == {200, 201, 404, 500}

\* response.ok
Ok(status) == status \in {200, 201}
ErrorBodies == {"stream not found"}

\* res.send(answerSdp): status 200 whichever 2xx the endpoint answered
WhepAnswerResponse(answerSdp) == [NoResp EXCEPT !.status = 200, !.body = answerSdp]

\* The non-2xx branch answering as the catch does: the endpoint's status and
\* error body are replaced by 503.
WhepErrorResponseMasked(status, errorText) ==
    [NoResp EXCEPT !.status = 503, !.message = "MediaMTX WHEP service unavailable"]

\* res.status(response.status).send(errorText)
WhepErrorResponse(status, errorText) ==
    [NoResp EXCEPT !.status = status, !.body = errorText]

\* catch (error): res.status(503).json(...)
WhepUnavailable ==
    [NoResp EXCEPT !.status = 503, !.message = "MediaMTX WHEP service unavailable"]

\* The handler up to its await: the 15 s abort timer is armed and the body goes
\* to the primary endpoint as it is (no validation).
WhepStart(r, streamName, body) ==
    /\ Arrives(r)
    /\ req' = [req EXCEPT ![r] =
                  [IdleReq EXCEPT !.route = "whep", !.name = streamName, !.body = body,
                                  !.pc = "awaitWhep", !.timer = TRUE, !.calls = 1]]
    /\ UNCHANGED <<paths, creates, uncheckedCreate, dupCreate, faults>>
    /\ UNCHANGED regVars

\* the endpoint's response headers arrive: clearTimeout(timeout)
WhepResponds(r, status) ==
    /\ req[r].pc = "awaitWhep"
    /\ req' = [req EXCEPT ![r].pc = IF Ok(status) THEN "readWhepAnswer"
                                    ELSE "readWhepError",
                          ![r].svcStatus = status,
                          ![r].timer = FALSE]
    /\ UNCHANGED <<paths, creates, uncheckedCreate, dupCreate, faults>>
    /\ UNCHANGED <<arrivals, regVars>>

\* await response.text() of a 2xx answer resolves: res.send(answerSdp)
WhepAnswerRead(r, answerSdp) ==
    /\ req[r].pc = "readWhepAnswer"
    /\ req' = [req EXCEPT ![r].pc = "done",
                          ![r].svcAnswer = answerSdp,
                          ![r].resp = WhepAnswerResponse(answerSdp)]
    /\ UNCHANGED <<paths, creates, uncheckedCreate, dupCreate, faults>>
    /\ UNCHANGED <<arrivals, regVars>>

\* await response.text() of a non-2xx answer resolves: status and text passed on
WhepErrorRead(r, errorText) ==
    /\ req[r].pc = "readWhepError"
    /\ req' = [req EXCEPT ![r].pc = "done",
                          ![r].svcAnswer = errorText,
                          ![r].resp = WhepErrorResponse(req[r].svcStatus, errorText)]
    /\ UNCHANGED <<paths, creates, uncheckedCreate, dupCreate, faults>>
    /\ UNCHANGED <<arrivals, regVars>>

\* the fetch or a body read rejects with a network error: the catch answers 503
\* (the timer, if still armed, is left to fire into an aborted controller)
WhepFails(r) ==
    /\ req[r].pc \in {"awaitWhep", "readWhepAnswer", "readWhepError"}
    /\ req' = [req EXCEPT ![r].pc = "done", ![r].resp = WhepUnavailable]
    /\ UNCHANGED <<paths, creates, uncheckedCreate, dupCreate, faults>>
    /\ UNCHANGED <<arrivals, regVars>>

\* the 15 s timer fires while the fetch is pending: AbortError, the catch
WhepTimerFires(r) ==
    /\ req[r].pc = "awaitWhep"
    /\ req[r].timer
    /\ req' = [req EXCEPT ![r].pc = "done", ![r].timer = FALSE,
                          ![r].resp = WhepUnavailable]
    /\ UNCHANGED <<paths, creates, uncheckedCreate, dupCreate, faults>>
    /\ UNCHANGED <<arrivals, regVars>>

WhepNext ==
    \/ \E r \in Reqs, n \in StreamNames, b \in Bodies : WhepStart(r, n, b)
    \/ \E r \in Reqs, st \in WhepStatuses : WhepResponds(r, st)
    \/ \E r \in Reqs, a \in AnswerBodies : WhepAnswerRead(r, a)
    \/ \E r \in Reqs, e \in ErrorBodies : WhepErrorRead(r, e)
    \/ \E r \in Reqs : WhepFails(r)
    \/ \E r \in Reqs : WhepTimerFires(r)

\* ---------------------------------- app.get('/api/stream/:streamName/status')
\* the handler up to its first await: the path list request leaves
StatusStart(r, streamName) ==
    /\ Arrives(r)
    /\ req' = [req EXCEPT ![r] =
                  [IdleReq EXCEPT !.route = "status", !.name = streamName,
                                  !.pc = "statusList", !.calls = 1,
                                  !.afterFallback =
                                      \E q \in Reqs : /\ req[q].route = "whip"
                                                       /\ req[q].name = streamName
                                                       /\ req[q].resp.status = 202]]
    /\ UNCHANGED <<paths, creates, uncheckedCreate, dupCreate, faults>>
    /\ UNCHANGED regVars

\* the answers of the status route
StatusUnavailable == [NoResp EXCEPT !.status = 503, !.message = "MediaMTX API unavailable"]
StatusFailed == [NoResp EXCEPT !.status = 500, !.message = "Stream status check failed"]
StatusNotFound(streamName) ==
    [NoResp EXCEPT !.status = 200, !.exists = "false", !.hlsAvailable = "false",
                   !.message = "Stream not found in MediaMTX paths",
                   !.statusUrl = CreateUrl(streamName)]
StatusFound(streamName, hlsAvailable) ==
    [NoResp EXCEPT !.status = 200, !.exists = "true",
                   !.hlsAvailable = IF hlsAvailable THEN "true" ELSE "false",
                   !.hlsUrl = HlsUrl(streamName), !.viewUrl = ViewUrl(streamName)]
\* The probe without its own try/catch, as in the first revision of the route
\* (lines 452-454): a rejected probe reaches the outer catch.
StatusProbeFailedUncaught(streamName) == StatusFailed

StatusProbeFailed(streamName) ==
    [NoResp EXCEPT !.status = 200, !.exists = "true", !.hlsAvailable = "false",
                   !.message = "Stream exists but HLS not ready"]

\* the path list response arrives: !ok answers 503
ListResponds(r, ok) ==
    /\ req[r].pc = "statusList"
    /\ req' = [req EXCEPT ![r] = IF ok THEN [@ EXCEPT !.pc = "statusListBody"]
                                 ELSE [@ EXCEPT !.pc = "done", !.resp = StatusUnavailable]]
    /\ faults' = (faults \/ ~ok)
    /\ UNCHANGED <<paths, creates, uncheckedCreate, dupCreate>>
    /\ UNCHANGED <<arrivals, regVars>>

\* the path list fetch, or reading its JSON body, rejects: the outer catch
ListFails(r) ==
    /\ req[r].pc \in {"statusList", "statusListBody"}
    /\ req' = [req EXCEPT ![r].pc = "done", ![r].resp = StatusFailed]
    /\ faults' = TRUE
    /\ UNCHANGED <<paths, creates, uncheckedCreate, dupCreate>>
    /\ UNCHANGED <<arrivals, regVars>>

\* await pathsResponse.json() resolves; items.find(item => item.name === streamName).
\* A body without items finds nothing.  Found: the HEAD probe of the playlist leaves.
ListRead(r, hasItems) ==
    LET rq == req[r]
        streamPath == hasItems /\ rq.name \in paths
    IN  /\ rq.pc = "statusListBody"
        /\ req' = [req EXCEPT ![r] =
                      IF streamPath
                      THEN [rq EXCEPT !.pc = "statusProbe", !.calls = @ + 1]
                      ELSE [rq EXCEPT !.pc = "done", !.resp = StatusNotFound(rq.name)]]
        /\ faults' = (faults \/ ~hasItems)
        /\ UNCHANGED <<paths, creates, uncheckedCreate, dupCreate>>
        /\ UNCHANGED <<arrivals, regVars>>

\* the HEAD probe answers: hlsAvailable = hlsResponse.ok
ProbeResponds(r, ok) ==
    /\ req[r].pc = "statusProbe"
    /\ req' = [req EXCEPT ![r].pc = "done", ![r].resp = StatusFound(req[r].name, ok)]
    /\ UNCHANGED <<paths, creates, uncheckedCreate, dupCreate, faults>>
    /\ UNCHANGED <<arrivals, regVars>>

\* the HEAD probe rejects: catch (hlsError)
ProbeFails(r) ==
    /\ req[r].pc = "statusProbe"
    /\ req' = [req EXCEPT ![r].pc = "done", ![r].resp = StatusProbeFailed(req[r].name)]
    /\ UNCHANGED <<paths, creates, uncheckedCreate, dupCreate, faults>>
    /\ UNCHANGED <<arrivals, regVars>>

StatusNext ==
    \/ \E r \in Reqs, n \in StreamNames : StatusStart(r, n)
    \/ \E r \in Reqs, ok \in BOOLEAN : ListResponds(r, ok)
    \/ \E r \in Reqs : ListFails(r)
    \/ \E r \in Reqs, i \in BOOLEAN : ListRead(r, i)
    \/ \E r \in Reqs, ok \in BOOLEAN : ProbeResponds(r, ok)
    \/ \E r \in Reqs : ProbeFails(r)

\* -------------------------------- app.get('/hls/:streamName/index.m3u8')
\* the handler up to its first await: the 8 s abort timer is armed, the playlist
\* request leaves
PlaylistStart(r, streamName) ==
    /\ Arrives(r)
    /\ req' = [req EXCEPT ![r] = [IdleReq EXCEPT !.route = "hls", !.name = streamName,
                                                 !.pc = "awaitPlaylist", !.timer = TRUE,
                                                 !.calls = 1]]
    /\ UNCHANGED <<paths, creates, uncheckedCreate, dupCreate, faults>>
    /\ UNCHANGED regVars

\* the playlist response arrives: 2xx is read and passed on, 404 calls ensure,
\* any other status is passed on
PlaylistResponds(r, status) ==
    /\ req[r].pc = "awaitPlaylist"
    /\ IF status = 404
       THEN CallEnsure(r, [req[r] EXCEPT !.timer = FALSE])
       ELSE /\ req' = [req EXCEPT ![r] =
                          IF status = 200
                          THEN [@ EXCEPT !.pc = "readPlaylist", !.timer = FALSE]
                          ELSE [@ EXCEPT !.pc = "done", !.timer = FALSE,
                                         !.resp = [NoResp EXCEPT !.status = status]]]
            /\ UNCHANGED <<paths, creates, uncheckedCreate, dupCreate, faults>>
            /\ UNCHANGED regVars
    /\ UNCHANGED arrivals

\* await response.text() resolves: the playlist is sent
PlaylistRead(r) ==
    /\ req[r].pc = "readPlaylist"
    /\ req' = [req EXCEPT ![r].pc = "done",
                          ![r].resp = [NoResp EXCEPT !.status = 200, !.body = "PLAYLIST"]]
    /\ UNCHANGED <<paths, creates, uncheckedCreate, dupCreate, faults>>
    /\ UNCHANGED <<arrivals, regVars>>

\* the fetch or the body read rejects with a network error: 503
PlaylistFails(r) ==
    /\ req[r].pc \in {"awaitPlaylist", "readPlaylist"}
    /\ req' = [req EXCEPT ![r].pc = "done", ![r].timer = FALSE,
                          ![r].resp = [NoResp EXCEPT !.status = 503,
                                                     !.message = "HLS service unavailable"]]
    /\ UNCHANGED <<paths, creates, uncheckedCreate, dupCreate, faults>>
    /\ UNCHANGED <<arrivals, regVars>>

\* the 8 s timer fires while the fetch is pending: AbortError, 408
PlaylistTimerFires(r) ==
    /\ req[r].pc = "awaitPlaylist"
    /\ req[r].timer
    /\ req' = [req EXCEPT ![r].pc = "done", ![r].timer = FALSE,
                          ![r].resp = [NoResp EXCEPT !.status = 408,
                                                     !.message = "HLS playlist request timeout"]]
    /\ UNCHANGED <<paths, creates, uncheckedCreate, dupCreate, faults>>
    /\ UNCHANGED <<arrivals, regVars>>

PlaylistNext ==
    \/ \E r \in Reqs, n \in StreamNames : PlaylistStart(r, n)
    \/ \E r \in Reqs, st \in {200, 404, 500} : PlaylistResponds(r, st)
    \/ \E r \in Reqs : PlaylistRead(r)
    \/ \E r \in Reqs : PlaylistFails(r)
    \/ \E r \in Reqs : PlaylistTimerFires(r)

\* ------------------------------------------------------------ relay events
\* what a publisher sends with 'stream-published': a locator may be supplied,
\* empty or missing
PublishedPayloads ==
    {[studentId |-> "s1", streamType |-> "camera", streamName |-> "s1_camera",
      viewUrl |-> Str(<<"v">>), hlsUrl |-> Str(<<>>), statusUrl |-> Undefined]}

\* what a publisher sends with 'stream-stopped'
StoppedPayloads == {[studentId |-> "s1", streamType |-> "camera"]}

\* value || fallback
OrDefault(value, fallback) == IF Falsy(value) THEN Str(fallback) ELSE value

\* The emit of the first revision of the handler (lines 609-624): viewUrl as
\* it came, hlsUrl always the default, no statusUrl.
PublishedRelayFirstRevision(data) ==
    [studentId |-> data.studentId, streamType |-> data.streamType,
     streamName |-> data.streamName,
     viewUrl |-> data.viewUrl,
     hlsUrl |-> Str(HlsUrl(data.streamName)),
     statusUrl |-> Undefined]

\* the object the 'stream-published' handler emits (its timestamp left out)
PublishedRelay(data) ==
    [studentId |-> data.studentId, streamType |-> data.streamType,
     streamName |-> data.streamName,
     viewUrl |-> OrDefault(data.viewUrl, ViewUrl(data.streamName)),
     hlsUrl |-> OrDefault(data.hlsUrl, HlsUrl(data.streamName)),
     statusUrl |-> OrDefault(data.statusUrl, StatusUrl(data.streamName))]

\* the object the 'stream-stopped' handler emits
StoppedRelay(data) == [studentId |-> data.studentId, streamType |-> data.streamType]

\* Relay with io.to(roomId) in place of socket.to(roomId): the sender, a member
\* of the room, gets the event too.
RelayToWholeRoom(c, event, payload) ==
    /\ c \notin closed
    /\ (c = Visitor \/ c \in DOMAIN socketToRoom)
    /\ sent' = IF c \in DOMAIN socketToRoom
               THEN {[to |-> o, event |-> event, data |-> payload] :
                        o \in members[socketToRoom[c].roomId]}
               ELSE {}
    /\ lastEvent' = [op |-> event, socket |-> c, again |-> FALSE]
    /\ UNCHANGED <<rooms, socketToRoom, activeStudents, activeProctors, members,
                   closed, joined, joins, left, reply, manager>>
    /\ UNCHANGED brokerVars

\* Relay without "if (userInfo)": an event from a connection that has no
\* binding goes to every other connection (socket.broadcast.emit).
RelayWithoutBindingCheck(c, event, payload) ==
    /\ c \notin closed
    /\ (c = Visitor \/ c \in DOMAIN socketToRoom)
    /\ sent' = IF c \in DOMAIN socketToRoom
               THEN {[to |-> o, event |-> event, data |-> payload] :
                        o \in OthersIn(socketToRoom[c].roomId, c)}
               ELSE {[to |-> o, event |-> event, data |-> payload] :
                        o \in UNION {members[r] : r \in RoomIds} \ {c}}
    /\ lastEvent' = [op |-> event, socket |-> c, again |-> FALSE]
    /\ UNCHANGED <<rooms, socketToRoom, activeStudents, activeProctors, members,
                   closed, joined, joins, left, reply, manager>>
    /\ UNCHANGED brokerVars

\* socket.to(userInfo.roomId).emit(event, payload) when the sender has a binding.
\* The connection that sends the event without a binding is the Visitor.
Relay(c, event, payload) ==
    /\ c \notin closed
    /\ (c = Visitor \/ c \in DOMAIN socketToRoom)
    /\ sent' = IF c \in DOMAIN socketToRoom
               THEN {[to |-> o, event |-> event, data |-> payload] :
                        o \in OthersIn(socketToRoom[c].roomId, c)}
               ELSE {}
    /\ lastEvent' = [op |-> event, socket |-> c, again |-> FALSE]
    /\ UNCHANGED <<rooms, socketToRoom, activeStudents, activeProctors, members,
                   closed, joined, joins, left, reply, manager>>
    /\ UNCHANGED brokerVars

\* socket.on('stream-published')
StreamPublished(c, data) == Relay(c, "stream-published", PublishedRelay(data))

\* socket.on('stream-stopped')
StreamStopped(c, data) == Relay(c, "stream-stopped", StoppedRelay(data))

RelayNext ==
    \/ \E c \in Sockets, d \in PublishedPayloads : StreamPublished(c, d)
    \/ \E c \in Sockets, d \in StoppedPayloads : StreamStopped(c, d)

\* every socket event
SocketNext == RegistryNext \/ RelayNext

\* the publish route with the status route, as a publisher and a viewer use them
PublishNext == WhipNext \/ EnsureNext \/ StatusNext

BrokerNext == WhipNext \/ WhepNext \/ ProvisionNext \/ StatusNext \/ PlaylistNext

\* the subscribe route next to the create route, the one direct caller of ensure
SubscribeNext == WhepNext \/ ProvisionNext

\* ------------------------------------------------------------ specifications
Init == RegistryInit /\ BrokerInit

Next == SocketNext \/ BrokerNext

\* the whole server
Spec == Init /\ [][Next]_vars

\* the join and disconnect events alone
SpecRegistry == Init /\ [][RegistryNext]_vars

\* every socket event, no HTTP request
SpecSocket == Init /\ [][SocketNext]_vars

\* joins and relay events on connections that stay open
SpecRelay == Init /\ [][JoinNext \/ RelayNext]_vars

\* the HTTP routes alone: no socket event arrives
SpecBroker == Init /\ [][BrokerNext]_vars

\* the create route alone
SpecProvision == Init /\ [][ProvisionNext]_vars

\* the publish and status routes alone
SpecPublish == Init /\ [][PublishNext]_vars

\* the subscribe and create routes alone
SpecSubscribe == Init /\ [][SubscribeNext]_vars

\* The timers the handlers arm do fire.  Nothing obliges the external service
\* to answer a request or to finish a response body.
TimersFire ==
    \A r \in Reqs : /\ WF_vars(AbortTimerFires(r))
                     /\ WF_vars(DeferredFires(r))
                     /\ WF_vars(WarmupFires(r))

SpecPublishFair == SpecPublish /\ TimersFire

\* ------------------------------------------------------------------ claims

\* the offer is a string with at least one character that is not whitespace
NonEmptyOffer(body) ==
    body.type = "string" /\ \E i \in 1..Len(body.text) : body.text[i] \notin Whitespace

\* the offer is missing, empty or whitespace-only
BlankOffer(body) ==
    \/ body.type = "undefined"
    \/ body.type = "string" /\ \A i \in 1..Len(body.text) : body.text[i] \in Whitespace

\* C1: a publish with a non-empty offer is answered with an error only when the
\* primary attempt failed and ensure reported failure, and then with 503; when
\* the primary attempt failed and ensure reported success the answer is 202.
C1_ErrorOnlyWhenBothFail ==
    \A r \in Reqs :
        LET rq == req[r]
        IN  (rq.route = "whip" /\ NonEmptyOffer(rq.body) /\ Responded(rq)) =>
                /\ rq.resp.status >= 400 =>
                       (rq.resp.status = 503 /\ rq.perr # "" /\ rq.ensureRet = "false")
                /\ (rq.perr # "" /\ rq.ensureRet = "true") => rq.resp.status = 202

\* One publish was answered 202 after its primary attempt was aborted and another
\* 503 after both its primary attempt and ensure failed.
C1_Witness ==
    \E r, q \in Reqs :
        /\ req[r].route = "whip" /\ req[r].perr = "This operation was aborted"
        /\ req[r].ensureRet = "true" /\ req[r].resp.status = 202
        /\ req[q].route = "whip" /\ req[q].perr # ""
        /\ req[q].ensureRet = "false" /\ req[q].resp.status = 503

\* C2: every publish whose offer reached the primary endpoint is eventually
\* answered, whatever the external service does.
C2_PublishAlwaysAnswered ==
    \A r \in Reqs : (req[r].pc = "awaitPrimary") ~> Responded(req[r])

\* the ensure calls of r and q overlapped in time
Overlapped(r, q) == q \in req[r].overlapped \/ r \in req[q].overlapped

\* C3: when ensure ran twice concurrently for one name that did not exist at
\* either call, and the external service answered every request truthfully, the
\* service saw exactly one create for the name and both calls returned success.
C3_ConcurrentEnsureCreatesOnce ==
    ~faults =>
        \A r, q \in Reqs :
            (/\ r # q
             /\ req[r].name = req[q].name
             /\ req[r].ensureRet # "none" /\ req[q].ensureRet # "none"
             /\ req[r].absentAtCall /\ req[q].absentAtCall
             /\ Overlapped(r, q))
                => (/\ creates[req[r].name] = 1
                    /\ req[r].ensureRet = "true"
                    /\ req[q].ensureRet = "true")

\* C4: an ensure whose create was rejected because the path already exists
\* returns success, and so does one whose create was answered 2xx.
C4_ConflictIsSuccess ==
    ~faults =>
        \A r \in Reqs :
            (req[r].ensureRet # "none" /\ req[r].createOutcome \in {"conflict", "created"})
                => req[r].ensureRet = "true"

\* C5: no stream name gets two create requests with no path-get for that name
\* sent between them.
C5_CheckBetweenCreates == dupCreate = {}

\* C6: a publish whose offer is missing, empty or whitespace-only is answered 400,
\* has made no call to the external service and has scheduled no deferred ensure.
C6_BlankOfferRejected ==
    \A r \in Reqs :
        LET rq == req[r]
        IN  (rq.route = "whip" /\ BlankOffer(rq.body)) =>
                /\ rq.pc = "done"
                /\ rq.resp.status = 400
                /\ rq.calls = 0
                /\ rq.deferred = "none"
                /\ rq.ensureRet = "none"
                /\ rq.warmup = "none"

\* A whitespace-only offer was rejected while another publish is in flight.
C6_Witness ==
    \E r, q \in Reqs :
        /\ req[r].route = "whip" /\ req[r].body = Str(<<"\t", " ">>)
        /\ req[r].resp.status = 400
        /\ req[q].route = "whip" /\ req[q].calls > 0

\* C7: when the primary endpoint answered a publish with success, the caller got
\* status 200 with exactly the payload the service returned and no fallback
\* locator, also after the deferred ensure has run.
C7_AnswerVerbatim ==
    \A r \in Reqs :
        LET rq == req[r]
        IN  (rq.route = "whip" /\ rq.svcAnswer # "") =>
                /\ rq.resp.status = 200
                /\ rq.resp.body = rq.svcAnswer
                /\ rq.resp.hlsUrl = <<>>
                /\ rq.resp.viewUrl = <<>>
                /\ rq.resp.statusUrl = <<>>
                /\ rq.resp.webrtcError = ""

\* The service answered "ANSWER2", and the deferred ensure has run to its end.
C7_Witness ==
    \E r \in Reqs :
        /\ req[r].route = "whip" /\ req[r].svcAnswer = "ANSWER2"
        /\ req[r].deferred = "ran" /\ req[r].pc = "done"

\* C8: with the path API answering truthfully, a publish for N whose primary
\* attempt was aborted at the deadline is answered 202 with a locator for N and
\* the primary failure reason, and a status query for N that arrives after that
\* answer reports exists = true.
C8_TimeoutFallsBackAndExists ==
    ~faults =>
        \A r \in Reqs :
            LET rq == req[r]
            IN  /\ (rq.route = "whip" /\ rq.perr = "This operation was aborted"
                        /\ rq.pc = "done")
                       => (/\ rq.resp.status = 202
                           /\ rq.resp.hlsUrl = HlsUrl(rq.name)
                           /\ rq.resp.webrtcError = rq.perr)
                /\ (rq.route = "status" /\ rq.afterFallback /\ Responded(rq))
                       => rq.resp.exists = "true"

\* The ids of one role that joined room r on a connection that is still open.
JoinedIds(role, r) == {j[3] : j \in {k \in joined : k[2] = role /\ k[4] = r}}

\* C9: after any sequence of joins and disconnects, each bucket of each room
\* holds as many entries as there are distinct ids of that role that joined the
\* room on a connection that has not disconnected.
C9_BucketCountMatchesJoined ==
    \A r \in RoomIds :
        /\ Len(RoomOrEmpty(r).students) = Cardinality(JoinedIds("student", r))
        /\ Len(RoomOrEmpty(r).proctors) = Cardinality(JoinedIds("proctor", r))

\* C10: handling disconnect again for a connection that has already left, or for
\* one that never joined, changes no room bucket, no participant record and no
\* binding, and emits nothing.
C10_RepeatedLeaveIsNoOp ==
    [][\A c \in Sockets :
          ((c \in closed \/ c \notin DOMAIN socketToRoom) /\ Disconnect(c))
              => (/\ UNCHANGED <<rooms, socketToRoom, activeStudents, activeProctors>>
                  /\ sent' = {})]_vars

\* A second disconnect was handled for a socket that had joined and left, while
\* another socket still has its participant in the registry.
C10_Witness ==
    /\ lastEvent.op = "disconnect"
    /\ lastEvent.again
    /\ lastEvent.socket \in left
    /\ DOMAIN activeStudents # {}
    /\ DOMAIN socketToRoom # {}

\* room r exists and its bucket for the role holds an entry with this id
InBucket(role, r, id) ==
    /\ r \in DOMAIN rooms
    /\ FindIndex(IF role = "student" THEN rooms[r].students ELSE rooms[r].proctors,
                 id) > 0

\* C11: for every participant record the registry holds, the room its roomId
\* names exists and that room's bucket for the record's role holds an entry with
\* the participant's id.
C11_RecordHasRoomEntry ==
    /\ \A id \in DOMAIN activeStudents :
           InBucket("student", activeStudents[id].roomId, id)
    /\ \A id \in DOMAIN activeProctors :
           InBucket("proctor", activeProctors[id].roomId, id)

\* A student re-joined into examB after joining examA, and another connection
\* has disconnected and taken its participant with it.
C11_Witness ==
    /\ \E id \in DOMAIN activeStudents :
           /\ activeStudents[id].roomId = "examB"
           /\ InBucket("student", "examA", id)
    /\ left # {}

\* the rooms whose bucket for the role holds an entry with this id
RoomsHolding(role, id) == {r \in DOMAIN rooms : InBucket(role, r, id)}

\* the entry with this id in room r's bucket for the role
EntryOf(role, r, id) ==
    LET arr == IF role = "student" THEN rooms[r].students ELSE rooms[r].proctors
    IN  arr[FindIndex(arr, id)]

\* C12: after any sequence of joins, an id has an entry in at most one room's
\* bucket of its role, and that entry is the record the latest join wrote.
C12_OneEntryPerId ==
    /\ \A id \in StudentIds :
           /\ Cardinality(RoomsHolding("student", id)) <= 1
           /\ id \in DOMAIN activeStudents =>
                  \A r \in RoomsHolding("student", id) :
                      EntryOf("student", r, id) = activeStudents[id]
    /\ \A id \in ProctorIds :
           /\ Cardinality(RoomsHolding("proctor", id)) <= 1
           /\ id \in DOMAIN activeProctors =>
                  \A r \in RoomsHolding("proctor", id) :
                      EntryOf("proctor", r, id) = activeProctors[id]

\* C13: when disconnect is handled for a connection that has a binding, then
\* right after it the bound room's bucket for the bound role has no entry with
\* the bound id, the registry has no record for that id in that role, and the
\* binding is gone.
C13_DisconnectRemovesParticipant ==
    [][\A c \in Sockets :
          (c \in DOMAIN socketToRoom /\ Disconnect(c)) =>
              LET b == socketToRoom[c]
                  bucket == IF b.role = "student" THEN rooms'[b.roomId].students
                            ELSE rooms'[b.roomId].proctors
                  registry == IF b.role = "student" THEN activeStudents'
                              ELSE activeProctors'
              IN  /\ c \notin DOMAIN socketToRoom'
                  /\ b.userId \notin DOMAIN registry
                  /\ FindIndex(bucket, b.userId) = 0]_vars

\* the ids of the entries of a bucket
IdsOf(arr) == {arr[i].id : i \in 1..Len(arr)}

\* C14: when a proctor has joined room R, that proctor's connection and no other
\* gets one roster event, and its student list is exactly the students that
\* joined R on a connection that has not disconnected.
C14_RosterIsJoinedStudents ==
    lastEvent.op = "join-as-proctor" =>
        LET c == lastEvent.socket
            R == socketToRoom[c].roomId
        IN  /\ \A m \in sent : m.to = c /\ m.event = "active-students"
            /\ Cardinality(sent) = 1
            /\ \A m \in sent :
                   /\ IdsOf(m.data) = JoinedIds("student", R)
                   /\ Len(m.data) = Cardinality(JoinedIds("student", R))

\* C15: every disconnect of a connection bound as student X sends a disconnected
\* notification carrying X to each other member of its room; a disconnect of a
\* connection bound as proctor sends nothing.
C15_StudentLeaveIsAnnounced ==
    [][\A c \in Sockets :
          (c \in DOMAIN socketToRoom /\ Disconnect(c)) =>
              LET b == socketToRoom[c]
              IN  IF b.role = "student"
                  THEN sent' = {[to |-> o, event |-> "student-disconnected",
                                 data |-> [studentId |-> b.userId]] :
                                    o \in OthersIn(b.roomId, c)}
                  ELSE sent' = {}]_vars

\* the record the registry holds for the participant a connection is bound to
BoundRecord(c) ==
    IF socketToRoom[c].role = "student" THEN activeStudents[socketToRoom[c].userId]
    ELSE activeProctors[socketToRoom[c].userId]

\* C16: every join, as student or as proctor, sends a joined notification with
\* the full participant record to each other member of the room, and sends the
\* joining connection a summary with the room's student and proctor counts.
C16_JoinBroadcastsAndSummarises ==
    lastEvent.op \in {"join-as-student", "join-as-proctor"} =>
        LET c == lastEvent.socket
            R == socketToRoom[c].roomId
        IN  /\ \A o \in OthersIn(R, c) :
                   \E m \in sent : /\ m.to = o
                                   /\ m.event \in {"student-joined", "proctor-joined"}
                                   /\ m.data = BoundRecord(c)
            /\ \E m \in sent : /\ m.to = c
                               /\ m.event = "room-info"
                               /\ m.data.studentsCount = Len(rooms[R].students)
                               /\ m.data.proctorsCount = Len(rooms[R].proctors)

\* the events that tell a room about one of its members
RoomNotifications ==
    {"student-joined", "student-disconnected", "stream-published", "stream-stopped"}

\* C17: a notification about room R goes only to connections whose binding, once
\* the event is handled, names room R, and never to the connection the event
\* came from.
C17_FanOutScopedToRoom ==
    [][\A m \in sent' :
          m.event \in RoomNotifications =>
              LET c == lastEvent'.socket
                  R == IF lastEvent'.op = "disconnect" THEN socketToRoom[c].roomId
                       ELSE socketToRoom'[c].roomId
              IN  /\ m.to # c
                  /\ m.to \in DOMAIN socketToRoom'
                  /\ socketToRoom'[m.to].roomId = R]_vars

\* C18: a stream-published or stream-stopped event from a connection bound to
\* room R is relayed exactly once to every other connection in R (bound to R, or
\* a member of the socket.io room R), and not to the sender.
C18_RelayOnceToOthers ==
    (lastEvent.op \in {"stream-published", "stream-stopped"}
         /\ lastEvent.socket \in DOMAIN socketToRoom) =>
        LET c == lastEvent.socket
            R == socketToRoom[c].roomId
            inR == {o \in DOMAIN socketToRoom : socketToRoom[o].roomId = R}
                       \cup members[R]
        IN  /\ \A m \in sent : m.to # c /\ m.event = lastEvent.op
            /\ \A o \in inR \ {c} : Cardinality({m \in sent : m.to = o}) = 1

\* A bound connection sent stream-published while two other connections were in
\* its room, and both got the relay.
C18_Witness ==
    /\ lastEvent.op = "stream-published"
    /\ lastEvent.socket \in DOMAIN socketToRoom
    /\ Cardinality({m.to : m \in sent}) = 2
    /\ \A m \in sent : socketToRoom[m.to].roomId = socketToRoom[lastEvent.socket].roomId

\* C19: a status query is never answered with an error: whatever the external
\* service does, the answer is a status snapshot.
C19_StatusNeverErrors ==
    \A r \in Reqs :
        (req[r].route = "status" /\ Responded(req[r])) =>
            /\ req[r].resp.status = 200
            /\ req[r].resp.exists \in {"true", "false"}

\* C20: when the path is in the external path list, a probe that rejects or is
\* answered non-2xx gives a normal answer with exists = true and
\* hlsAvailable = false.
C20_ProbeFailureIsData ==
    [][\A r \in Reqs :
          (req[r].pc = "statusProbe" /\ (ProbeFails(r) \/ ProbeResponds(r, FALSE))) =>
              /\ req'[r].resp.status = 200
              /\ req'[r].resp.exists = "true"
              /\ req'[r].resp.hlsAvailable = "false"]_vars

\* A status query found its path in the list, its probe was rejected, and it has
\* been answered.
C20_Witness ==
    \E r \in Reqs :
        /\ req[r].route = "status"
        /\ req[r].name \in paths
        /\ req[r].calls = 2
        /\ req[r].resp.message = "Stream exists but HLS not ready"

\* ======================================================= students router
\* PUT /:studentId/status of routes/students.js.  The router reads the registry
\* as req.app.locals.activeStudents; the model hands it the registry the socket
\* handlers write.

\* a property that is undefined, or not there at all
NoValue == "undefined"
NoStudent == [id |-> NoValue]

\* the three properties the route takes from req.body
StatusFields == {"status", "cameraActive", "screenSharing"}

\* req.body as express.json() leaves it: every field, some fields, or none
StatusBodies ==
    {[status |-> "away", cameraActive |-> "true", screenSharing |-> "false"],
     [status |-> NoValue, cameraActive |-> "true", screenSharing |-> NoValue],
     [status |-> NoValue, cameraActive |-> NoValue, screenSharing |-> NoValue]}

\* obj[k]
Field(obj, k) == IF k \in DOMAIN obj THEN obj[k] ELSE NoValue

\* {...student, status, cameraActive, screenSharing}
WithStatus(student, body) ==
    [k \in DOMAIN student \cup StatusFields |->
        IF k \in StatusFields THEN body[k] ELSE student[k]]

\* router.put('/:studentId/status')
UpdateStatus(studentId, body) ==
    /\ IF studentId \in DOMAIN activeStudents
       THEN LET student == WithStatus(activeStudents[studentId], body)
            IN  /\ activeStudents' = Put(activeStudents, studentId, student)
                /\ reply' = [status |-> 200, student |-> student]
       ELSE /\ reply' = [status |-> 404, student |-> NoStudent]
            /\ UNCHANGED activeStudents
    /\ UNCHANGED <<rooms, socketToRoom, activeProctors, members, closed, sent,
                   joined, joins, lastEvent, left, manager>>
    /\ UNCHANGED brokerVars

StudentsNext ==
    \E id \in StudentIds, body \in StatusBodies : UpdateStatus(id, body)

\* the socket handlers that fill the registry, and the students router
SpecRoster == Init /\ [][RegistryNext \/ StudentsNext]_vars

AwaitsService(rq) ==
    rq.pc \in EnsurePcs \cup {"statusList", "statusListBody", "statusProbe"}

\* C22: every ensure invocation and every status query eventually returns to its
\* caller: no path-get, path-create, path list or probe request is waited for
\* without end, even when the external service never answers.
C22_OutboundCallsBounded ==
    \A r \in Reqs : AwaitsService(req[r]) ~> ~AwaitsService(req[r])

\* the publish ended with the primary attempt failed and ensure failed
FallbackFailed(rq) ==
    rq.route = "whip" /\ rq.perr # "" /\ rq.ensureRet = "false" /\ Responded(rq)

\* why the ensure of this request failed
ProvisionCause(rq) ==
    CASE rq.createOutcome \in {"conflict", "error"} -> "create rejected"
      [] rq.createOutcome = "neterr" -> "create request failed"
      [] rq.createOutcome = "created" -> "create answer unreadable"
      [] OTHER -> "path-get failed"

\* C23: the error that answers a publish whose primary attempt and ensure both
\* failed carries the primary failure reason and the cause of the provisioning
\* failure: two such errors whose ensure failed for different causes differ in
\* what they report as the fallback's error.
C23_ErrorCarriesBothCauses ==
    \A r, q \in Reqs :
        (FallbackFailed(req[r]) /\ FallbackFailed(req[q])) =>
            /\ req[r].resp.webrtcError = req[r].perr
            /\ ProvisionCause(req[r]) # ProvisionCause(req[q]) =>
                   req[r].resp.fallbackError # req[q].resp.fallbackError

\* C24: ensure sends a create request only after its path-get was answered with
\* a well-formed not-found.  A path-get answered found sends none; a path-get
\* that fails in another way (an error status, a rejected request) sends none
\* and makes ensure return failure.
C24_CreateOnlyAfterNotFound ==
    [][\A r \in Reqs :
          /\ (~faults /\ GetResponds(r, "error")) =>
                 (creates' = creates /\ req'[r].ensureRet = "false")
          /\ (GetResponds(r, "truth") /\ req[r].name \in paths) => creates' = creates
          /\ GetFails(r) => (creates' = creates /\ req'[r].ensureRet = "false")]_vars

\* C25: a subscribe never calls ensure, schedules nothing and is never answered
\* 202; when the primary endpoint's answer was received in full, a 2xx answer is
\* passed on unchanged and a non-2xx answer is passed on with the endpoint's
\* status and error body; every other outcome is the 503 of the catch.
C25_SubscribeIsPassThrough ==
    \A r \in Reqs :
        LET rq == req[r]
        IN  rq.route = "whep" =>
                /\ rq.pc \notin EnsurePcs
                /\ rq.ensureRet = "none"
                /\ rq.deferred = "none" /\ rq.warmup = "none"
                /\ rq.calls = 1
                /\ rq.resp.status # 202
                /\ rq.resp.hlsUrl = <<>>
                /\ rq.svcAnswer # "" =>
                       /\ rq.resp.body = rq.svcAnswer
                       /\ rq.resp.status = IF Ok(rq.svcStatus) THEN 200 ELSE rq.svcStatus
                /\ (Responded(rq) /\ rq.svcAnswer = "") => rq.resp.status = 503

\* One subscribe was answered 404 with the endpoint's error body and another got
\* the endpoint's answer, while the name has no path.
C25_Witness ==
    \E r, q \in Reqs :
        /\ req[r].route = "whep" /\ req[r].resp.status = 404
        /\ req[r].resp.body = "stream not found"
        /\ req[q].route = "whep" /\ req[q].resp.body = "ANSWER2"
        /\ req[q].name \notin paths

\* C26: a publish that has been answered ended in one of four outcomes:
\* rejected (400, nothing sent to the external service), PrimaryAnswered (200
\* with the endpoint's answer), FallbackReady (202 after the primary attempt
\* failed and ensure succeeded) or FallbackFailed (503 after both failed); and
\* a publish that has no answer yet is inside ensure only after its primary
\* attempt failed.
C26_OneOfFourOutcomes ==
    \A r \in Reqs :
        LET rq == req[r]
        IN  rq.route = "whip" =>
                /\ Responded(rq) =>
                       \/ rq.resp.status = 400 /\ rq.calls = 0
                       \/ rq.resp.status = 200 /\ rq.svcAnswer # "" /\ rq.perr = ""
                       \/ rq.resp.status = 202 /\ rq.perr # "" /\ rq.ensureRet = "true"
                       \/ rq.resp.status = 503 /\ rq.perr # "" /\ rq.ensureRet = "false"
                /\ (~Responded(rq) /\ rq.pc \in EnsurePcs) => rq.perr # ""

\* C27: the step that hands the primary endpoint's answer to the caller
\* schedules the deferred ensure, and no other step schedules one; the deferred
\* ensure starts only when the answer has been sent; and once it has started,
\* nothing it does changes the response or schedules it again.
C27_DeferredEnsureIsOnTheSide ==
    [][\A r \in Reqs :
          LET rq == req[r]
              nx == req'[r]
              answers == nx.route = "whip" /\ rq.svcAnswer = "" /\ nx.svcAnswer # ""
          IN  /\ answers => (/\ rq.deferred = "none"
                             /\ nx.deferred = "pending"
                             /\ nx.resp = AnswerResponse(nx.svcAnswer))
              /\ (nx.deferred = "pending" /\ rq.deferred # "pending") => answers
              /\ DeferredFires(r) => rq.resp = AnswerResponse(rq.svcAnswer)
              /\ (rq.deferred = "ran" /\ arrivals' = arrivals) =>
                     (nx.resp = rq.resp /\ nx.deferred = "ran")]_vars

\* The deferred ensure of an answered publish has run to its end and failed: its
\* create request was rejected by the external service.
C27_Witness ==
    \E r \in Reqs :
        /\ req[r].route = "whip" /\ req[r].resp.status = 200
        /\ req[r].deferred = "ran" /\ req[r].pc = "done"
        /\ req[r].ensureRet = "false" /\ req[r].createOutcome = "error"

\* the ensure of this request has sent its create request
CreateSent(rq) ==
    rq.pc \in {"ensureCreate", "ensureCreateBody", "ensureCreateError"}
        \/ rq.createOutcome # "none"

\* C28: a request of the create route, which calls ensure once, has sent one
\* path-get, one more request when its ensure went on to the create, and one
\* more when the warm-up has fired, and nothing else; and where a warm-up was
\* scheduled, ensure's result stays success and the answer stays the 200; an
\* ensure whose create request failed has ended in failure.
C28_EnsureSendsEachRequestOnce ==
    \A r \in Reqs :
        LET rq == req[r]
        IN  rq.route = "create" =>
                /\ rq.calls = 1 + (IF CreateSent(rq) THEN 1 ELSE 0)
                                + (IF rq.warmup = "sent" THEN 1 ELSE 0)
                /\ rq.warmup # "none" =>
                       /\ rq.ensureRet = "true"
                       /\ rq.createOutcome = "created"
                       /\ rq.resp = CreateRouteResponse(rq.name, TRUE)
                /\ (rq.pc = "done" /\ rq.createOutcome \in {"error", "conflict", "neterr"}) =>
                       rq.ensureRet = "false"

\* One create request ended with its warm-up sent, and another one ended in
\* failure after its create request was rejected.
C28_Witness ==
    \E r, q \in Reqs :
        /\ req[r].route = "create" /\ req[r].warmup = "sent" /\ req[r].calls = 3
        /\ req[q].route = "create" /\ req[q].pc = "done"
        /\ req[q].createOutcome = "error" /\ req[q].calls = 2

\* the sender supplied this locator: a string that is not empty
Supplied(locator) == locator.type = "string" /\ locator.text # <<>>

\* the sender's locator, or the default one when the sender supplied none
LocatorOr(locator, default) == IF Supplied(locator) THEN locator ELSE Str(default)

\* C29: every relayed stream-published event carries the sender's studentId,
\* streamType and streamName, and in each of viewUrl, hlsUrl and statusUrl the
\* sender's locator when one was supplied and the default derived from
\* streamName otherwise; every relayed stream-stopped event carries the sender's
\* studentId and streamType and nothing else.
C29_RelayCarriesSendersFields ==
    [][/\ \A c \in Sockets, d \in PublishedPayloads :
              (lastEvent'.op = "stream-published" /\ StreamPublished(c, d)) =>
                  \A m \in sent' :
                      /\ m.data.studentId = d.studentId
                      /\ m.data.streamType = d.streamType
                      /\ m.data.streamName = d.streamName
                      /\ m.data.viewUrl = LocatorOr(d.viewUrl, ViewUrl(d.streamName))
                      /\ m.data.hlsUrl = LocatorOr(d.hlsUrl, HlsUrl(d.streamName))
                      /\ m.data.statusUrl =
                             LocatorOr(d.statusUrl, StatusUrl(d.streamName))
       /\ \A c \in Sockets, d \in StoppedPayloads :
              (lastEvent'.op = "stream-stopped" /\ StreamStopped(c, d)) =>
                  \A m \in sent' :
                      /\ DOMAIN m.data = {"studentId", "streamType"}
                      /\ m.data.studentId = d.studentId
                      /\ m.data.streamType = d.streamType]_vars

\* A stream-published event that came with a viewUrl, an empty hlsUrl and no
\* statusUrl has reached two other connections with the sender's viewUrl and the
\* default hlsUrl and statusUrl.
C29_Witness ==
    /\ Cardinality(sent) = 2
    /\ \A m \in sent :
           /\ m.event = "stream-published"
           /\ m.data.viewUrl = Str(<<"v">>)
           /\ m.data.hlsUrl = Str(HlsUrl("s1_camera"))
           /\ m.data.statusUrl = Str(StatusUrl("s1_camera"))

\* C30: when two publishes for one name that has no path yet ran their fallback
\* at the same time, after both primary attempts failed or were aborted, and the
\* external service answered every path request truthfully, both are answered
\* 202 and neither 503.
C30_ConcurrentFallbacksBothReady ==
    ~faults =>
        \A r, q \in Reqs :
            (/\ r # q
             /\ req[r].route = "whip" /\ req[q].route = "whip"
             /\ req[r].name = req[q].name
             /\ req[r].perr # "" /\ req[q].perr # ""
             /\ req[r].absentAtCall /\ req[q].absentAtCall
             /\ Overlapped(r, q)
             /\ Responded(req[r]) /\ Responded(req[q]))
                => (req[r].resp.status = 202 /\ req[q].resp.status = 202)

\* C31: every connection that has a binding has its participant present: the
\* registry holds a record for the bound id under the bound role, and the bound
\* room's bucket for that role holds an entry with that id.
C31_BoundParticipantPresent ==
    \A c \in DOMAIN socketToRoom :
        LET b == socketToRoom[c]
        IN  /\ b.userId \in DOMAIN (IF b.role = "student" THEN activeStudents
                                    ELSE activeProctors)
            /\ InBucket(b.role, b.roomId, b.userId)

\* the record belongs to an open connection whose binding names its id and role
OwnedByBinding(rec, role) ==
    /\ rec.socketId \in DOMAIN socketToRoom
    /\ rec.socketId \notin closed
    /\ socketToRoom[rec.socketId].userId = rec.id
    /\ socketToRoom[rec.socketId].role = role

\* C32: every participant record, in the registry or in a room bucket, belongs
\* to an open connection whose binding names the record's id and role; no record
\* carries the identity of a connection that has disconnected.
C32_RecordsBelongToOpenConnections ==
    /\ \A id \in DOMAIN activeStudents : OwnedByBinding(activeStudents[id], "student")
    /\ \A id \in DOMAIN activeProctors : OwnedByBinding(activeProctors[id], "proctor")
    /\ \A r \in DOMAIN rooms :
           /\ \A i \in 1..Len(rooms[r].students) :
                  OwnedByBinding(rooms[r].students[i], "student")
           /\ \A i \in 1..Len(rooms[r].proctors) :
                  OwnedByBinding(rooms[r].proctors[i], "proctor")

\* the ids of the entries of a bucket, in order
BucketIds(arr) == [i \in 1..Len(arr) |-> arr[i].id]

\* no value occurs at two positions of the sequence
NoDuplicates(seq) == \A i, j \in 1..Len(seq) : seq[i] = seq[j] => i = j

\* C33: in no room does a participant id occur twice in the students bucket or
\* twice in the proctors bucket.
C33_NoDuplicateIdInBucket ==
    \A r \in DOMAIN rooms :
        /\ NoDuplicates(BucketIds(rooms[r].students))
        /\ NoDuplicates(BucketIds(rooms[r].proctors))

\* Student s1 joined a room from two connections that are both open, and the
\* room's bucket holds s1 and one other student.
C33_Witness ==
    \E r \in DOMAIN rooms :
        /\ <<1, "student", "s1", r>> \in joined
        /\ <<2, "student", "s1", r>> \in joined
        /\ Len(rooms[r].students) = 2

\* C34: handling a stream-published or stream-stopped event changes no room, no
\* binding, no participant record and no room membership, and when the sender
\* has no binding nothing is emitted to anyone.
C34_RelayLeavesRegistryAlone ==
    [][lastEvent'.op \in {"stream-published", "stream-stopped"} =>
          /\ UNCHANGED <<rooms, socketToRoom, activeStudents, activeProctors,
                         members, closed>>
          /\ lastEvent'.socket \notin DOMAIN socketToRoom => sent' = {}]_vars

\* A connection without a binding sent stream-stopped while two connections
\* were in one room, and nothing was emitted.
C34_Witness ==
    /\ lastEvent.op = "stream-stopped"
    /\ lastEvent.socket \notin DOMAIN socketToRoom
    /\ sent = {}
    /\ \E r \in RoomIds : Cardinality(members[r]) = 2
    /\ DOMAIN activeStudents # {}

\* the playlist route with ensure, which its 404 branch calls
ViewerNext == PlaylistNext \/ EnsureNext

SpecViewer == Init /\ [][ViewerNext]_vars

\* C35: a playlist request whose ensure has returned is answered 404, and the
\* answer says that the stream path was created and to try again only when that
\* ensure returned success.
C35_CreatedMessageOnlyOnSuccess ==
    \A r \in Reqs :
        LET rq == req[r]
        IN  (rq.route = "hls" /\ rq.ensureRet # "none") =>
                /\ rq.resp.status = 404
                /\ rq.resp.message =
                       "Stream path created, please try again in a few seconds"
                           => rq.ensureRet = "true"

\* ======================================================== proctors router
\* GET /:proctorId/dashboard?roomId= of routes/proctors.js.  The router reads the
\* rooms as req.app.locals.rooms; the model hands it the rooms the socket
\* handlers write.  The proctorId parameter is not used by the handler.

\* s.cameraActive || s.screenSharing
Streaming(s) == Field(s, "cameraActive") = "true" \/ Field(s, "screenSharing") = "true"

\* roomData.students.filter(s => s.cameraActive || s.screenSharing).length
ActiveStreams(students) ==
    Cardinality({i \in 1..Len(students) : Streaming(students[i])})

\* router.get('/:proctorId/dashboard')
Dashboard(roomId) ==
    /\ reply' = IF roomId \in DOMAIN rooms
                THEN [status |-> 200, student |-> NoStudent,
                      totalStudents |-> Len(rooms[roomId].students),
                      activeStreams |-> ActiveStreams(rooms[roomId].students)]
                ELSE [status |-> 404, student |-> NoStudent]
    /\ UNCHANGED <<rooms, socketToRoom, activeStudents, activeProctors, members,
                   closed, sent, joined, joins, lastEvent, left, manager>>
    /\ UNCHANGED brokerVars

ProctorsNext == \E r \in RoomIds : Dashboard(r)

\* the socket handlers with both routers
SpecRest == Init /\ [][RegistryNext \/ StudentsNext \/ ProctorsNext]_vars

\* the entry with this id in the students bucket of room r of rms, if there is one
HasStudentEntry(rms, r, id) == r \in DOMAIN rms /\ FindIndex(rms[r].students, id) > 0
StudentEntry(rms, r, id) == rms[r].students[FindIndex(rms[r].students, id)]

StreamTypes == {"camera", "screen"}
ManagerStudents == {"s1"}

\* `${studentId}_${streamType}`
ConnectionKey(studentId, streamType) == studentId \o "_" \o streamType

\* async createStream(studentId, streamType): new WebSocket(wsUrl) either throws
\* (the catch returns a failure) or gives a socket that the map takes under the
\* key, in place of whatever the key held.
CreateStream(studentId, streamType, constructed) ==
    LET key == ConnectionKey(studentId, streamType)
        ws == Len(manager.sockets) + 1
    IN  /\ Len(manager.sockets) < MaxWebSockets
        /\ manager' =
               IF constructed
               THEN [connections |-> Put(manager.connections, key, ws),
                     sockets |-> Append(manager.sockets, "open"),
                     live |-> manager.live \cup {key},
                     result |-> [NoResult EXCEPT !.op = "createStream",
                                                 !.success = TRUE,
                                                 !.streamPath = key]]
               ELSE [manager EXCEPT !.result =
                        [NoResult EXCEPT !.op = "createStream",
                                         !.error = "Invalid URL"]]
        /\ UNCHANGED <<rooms, socketToRoom, activeStudents, activeProctors, members,
                       closed, sent, joined, joins, lastEvent, left, reply>>
        /\ UNCHANGED brokerVars

\* async stopStream(studentId, streamType): a tracked socket is closed and its key
\* deleted (ws.close() throwing leaves the key, the catch returns a failure); an
\* untracked key returns 'Stream not found'.
StopStream(studentId, streamType, closes) ==
    LET key == ConnectionKey(studentId, streamType)
    IN  /\ manager' =
               IF key \notin DOMAIN manager.connections
               THEN [manager EXCEPT !.result =
                        [NoResult EXCEPT !.op = "stopStream",
                                         !.error = "Stream not found"]]
               ELSE IF closes
               THEN [connections |-> Delete(manager.connections, key),
                     sockets |-> [manager.sockets EXCEPT
                                     ![manager.connections[key]] = "closed"],
                     live |-> manager.live \ {key},
                     result |-> [NoResult EXCEPT !.op = "stopStream",
                                                 !.success = TRUE]]
               ELSE [manager EXCEPT !.result =
                        [NoResult EXCEPT !.op = "stopStream",
                                         !.error = "close failed"]]
        /\ UNCHANGED <<rooms, socketToRoom, activeStudents, activeProctors, members,
                       closed, sent, joined, joins, lastEvent, left, reply>>
        /\ UNCHANGED brokerVars

\* getActiveStreams(): Array.from(this.connections.keys())
GetActiveStreams ==
    /\ manager' = [manager EXCEPT !.result =
                      [NoResult EXCEPT !.op = "getActiveStreams", !.success = TRUE,
                                       !.streams = DOMAIN manager.connections]]
    /\ UNCHANGED <<rooms, socketToRoom, activeStudents, activeProctors, members,
                   closed, sent, joined, joins, lastEvent, left, reply>>
    /\ UNCHANGED brokerVars

ManagerNext ==
    \/ \E id \in ManagerStudents, t \in StreamTypes, ok \in BOOLEAN :
           CreateStream(id, t, ok)
    \/ \E id \in ManagerStudents, t \in StreamTypes, ok \in BOOLEAN :
           StopStream(id, t, ok)
    \/ GetActiveStreams

\* the manager alone
SpecManager == Init /\ [][ManagerNext]_vars

\* C37: every WebSocket that createStream has opened is either the one the map
\* holds under some key or has been closed; what getActiveStreams returns is the
\* set of keys created and not yet stopped with success; and a stopStream for a
\* key the map does not hold answers 'Stream not found' and leaves the map as
\* it was.
C37_ConnectionsTrackedOrClosed ==
    /\ \A w \in 1..Len(manager.sockets) :
           \/ manager.sockets[w] = "closed"
           \/ \E k \in DOMAIN manager.connections : manager.connections[k] = w
    /\ manager.result.op = "getActiveStreams" => manager.result.streams = manager.live
    /\ manager.result.error = "Stream not found" =>
           manager.live = DOMAIN manager.connections

====
